---- MODULE Spec2Model ----
(***************************************************************************)
(* A model of the type-level utilities of neshek1 and of the declarations  *)
(* that use them.  The "program" is a set of TypeScript type declarations;  *)
(* what runs is the type checker evaluating a declaration                  *)
(*     let x: SomeType<Args> = value                                       *)
(* A state is one such declaration under evaluation: the type arguments,   *)
(* the assigned value, and the result of the evaluation so far.  Init      *)
(* draws the declaration from bounded sets; each action evaluates one      *)
(* utility type as its definition in the source prescribes.                *)
(*                                                                         *)
(* Representation of types.                                                *)
(*  - A property type is the set of the value types it admits, so that     *)
(*    `never` is the empty set, a union is set union and an intersection   *)
(*    is set intersection.                                                 *)
(*  - An object type ("shape") is a function from its property names to    *)
(*    records [type, optional].                                            *)
(*  - An object literal is a function from the names of the properties it  *)
(*    sets to the type of the value each is set to.  A property counts as  *)
(*    set when it holds a defined value.                                   *)
(* The repository ships no tsconfig, so the checker is modelled with the   *)
(* compiler's default options.                                             *)
(***************************************************************************)
EXTENDS Integers, Sequences, FiniteSets, TLC

VARIABLES
    kind,      \* which declaration is being checked
    T,         \* XOR: the tuple of object shapes  (XOR<T>)
    val,       \* the object literal assigned to the declared type
    verdict,   \* "pending" until checked, then "accepted" or "rejected"
    U,         \* the union handed to UnionToTuple / UnionToIntersection
    obj,       \* the object shape handed to KeysToTuple
    rest,      \* UnionToTuple: the union the recursion is currently applied to
    tuple,     \* UnionToTuple: the elements produced so far
    steps,     \* UnionToTuple: members extracted so far
    I,         \* UnionToIntersection: the inferred intersection
    tval,      \* the array literal assigned to the resulting tuple type
    arg,       \* the type argument of DataTypeOf / LangTypeOf
    res,       \* the type DataTypeOf / LangTypeOf evaluates to
    pc,        \* "start", "expanding" (inside the recursion), "typed", "done"
    uverdict,  \* the verdict on the same literal against the plain union of T
    keydt,     \* the object literal assigned to KeyDataType
    cls,       \* schema: the class whose definition is checked
    keynames,  \* schema: the array literal given as the class's key
    code,      \* repoErrors: the error code looked up
    subst,     \* repoErrors: the substitution values
    tmpl,      \* repoErrors: the result of the lookup
    msg        \* repoErrors: the message produced

keyVars == <<keydt, cls, keynames>>
errVars == <<code, subst, tmpl, msg>>

vars ==
    <<kind, T, val, verdict, U, obj, rest, tuple, steps, I, tval, arg, res, pc,
      uverdict, keyVars, errVars>>

(***************************************************************************)
(* Bounds of the model.                                                    *)
(***************************************************************************)
\* Longest tuple of shapes handed to XOR over the two-key universe.
MaxShapes == 3

\* Most members of a union handed to UnionToTuple or UnionToIntersection.
MaxMembers == 3

\* Longest array literal assigned to a tuple type.
MaxTupleLen == 3

\* Most attributes, besides dt, a property definition literal sets.
MaxAttrs == 2

\* Longest array literal given as a class's key.
MaxKeyLen == 2

(***************************************************************************)
(* Built-in type operators of the language used by the source.             *)
(***************************************************************************)
\* The bottom type: admits no value.
never == {}

\* keyof S for an object shape S.
keyof(S) == DOMAIN S

\* Exclude<K, L> on unions of property names (literal key types).
ExcludeKeys(K, L) == K \ L

\* Record<K, ty>: every key of K required, of type ty.
Record(K, ty) == [k \in K |-> [type |-> ty, optional |-> FALSE]]

\* A slip that leaves the properties as required as they were.
PartialRequired(S) == S

\* Partial<S>: every property of S made optional.
Partial(S) == [k \in DOMAIN S |-> [type |-> S[k].type, optional |-> TRUE]]

\* A & B for object shapes: the properties of both; a property declared in
\* both has the intersection of the two types and is optional only when it
\* is optional in both.
Intersect(A, B) ==
    [k \in (DOMAIN A) \cup (DOMAIN B) |->
        IF k \in DOMAIN A /\ k \in DOMAIN B
        THEN [type |-> A[k].type \cap B[k].type,
              optional |-> A[k].optional /\ B[k].optional]
        ELSE IF k \in DOMAIN A THEN A[k] ELSE B[k]]

\* An object literal is structurally assignable to shape S: every property
\* of S that the literal sets holds a value of an admitted type, and every
\* property it does not set is optional.
AssignableTo(lit, S) ==
    \A k \in DOMAIN S :
        IF k \in DOMAIN lit THEN lit[k] \in S[k].type ELSE S[k].optional

\* The excess-property check of a fresh object literal against a union of
\* shapes: every property the literal sets is declared by some member.
NoExcessProps(lit, members) ==
    DOMAIN lit \subseteq UNION {DOMAIN S : S \in members}

\* `let x: A | B | ... = lit` for a union of object shapes.
AcceptsLiteral(lit, members) ==
    /\ NoExcessProps(lit, members)
    /\ \E S \in members : AssignableTo(lit, S)

\* `let x: S = lit` for one object shape.
Conforms(lit, S) == AcceptsLiteral(lit, {S})

(***************************************************************************)
(* UnionKeys and XOR.                                                      *)
(***************************************************************************)
\* UnionKeys<T[number]>: distributes keyof over the members of the union.
\* A slip that takes the keys of the first shape only.
UnionKeysFirst(tup) == keyof(tup[1])

UnionKeys(tup) == UNION {keyof(tup[i]) : i \in DOMAIN tup}

\* A slip that forbids every key of the union, the shape's own included.
ForbiddenKeysNoExclude(tup, i) == UnionKeys(tup)

\* The keys alternative i forbids: Exclude<UnionKeys<T[number]>, keyof T[i]>.
ForbiddenKeys(tup, i) == ExcludeKeys(UnionKeys(tup), keyof(tup[i]))

\* A slip that leaves the forbidden record out: the plain union member.
XORAlternativePlain(tup, i) == tup[i]

\* Alternative i of the mapped type:
\*   T[i] & Partial<Record<Exclude<UnionKeys<T[number]>, keyof T[i]>, never>>
XORAlternative(tup, i) ==
    Intersect(tup[i], Partial(Record(ForbiddenKeys(tup, i), never)))

\* XOR<T>: the mapped tuple indexed by [number], i.e. the union of its
\* alternatives.
XOR(tup) == {XORAlternative(tup, i) : i \in DOMAIN tup}

(***************************************************************************)
(* Types as members of unions and elements of tuples.                      *)
(***************************************************************************)
Lit(n) == [kind |-> "literal", name |-> n, props |-> <<>>]
Prim(n) == [kind |-> "primitive", name |-> n, props |-> <<>>]
Obj(S) == [kind |-> "object", name |-> "", props |-> S]
NeverType == [kind |-> "never", name |-> "never", props |-> <<>>]
UnknownType == [kind |-> "unknown", name |-> "unknown", props |-> <<>>]

\* X extends Y, the test of a conditional type.  The literal types of the
\* model are string literals.
Extends(X, Y) ==
    \/ X = Y
    \/ X.kind = "never"
    \/ Y.kind = "unknown"
    \/ X.kind = "literal" /\ Y = Prim("string")
    \/ /\ X.kind = "object" /\ Y.kind = "object"
       /\ \A k \in DOMAIN Y.props :
            IF k \in DOMAIN X.props
            THEN /\ X.props[k].type \subseteq Y.props[k].type
                 /\ X.props[k].optional => Y.props[k].optional
            ELSE Y.props[k].optional

\* Exclude<T, W> = T extends W ? never : T, distributed over the members of T.
Exclude(Tn, W) == {M \in Tn : ~Extends(M, W)}

\* The intersection of a set of object shapes.
RECURSIVE IntersectShapes(_)
IntersectShapes(Ss) ==
    IF Ss = {} THEN <<>>
    ELSE LET A == CHOOSE A \in Ss : TRUE
         IN  Intersect(A, IntersectShapes(Ss \ {A}))

\* A slip that keeps one candidate instead of intersecting them all.
IntersectTypesFirst(Ms) == IF Ms = {} THEN UnknownType ELSE CHOOSE M \in Ms : TRUE

\* M1 & M2 & ... for the members of Ms (no literal together with its own
\* primitive: a union never holds both).  With no candidate the inference
\* yields unknown; two different literal or primitive types have no common
\* value; object types merge their properties.
IntersectTypes(Ms) ==
    LET scalars == {M \in Ms : M.kind \in {"literal", "primitive"}}
        shapes  == {M.props : M \in {N \in Ms : N.kind = "object"}}
    IN  IF Ms = {} THEN UnknownType
        ELSE IF Cardinality(Ms) = 1 THEN CHOOSE M \in Ms : TRUE
        ELSE IF Cardinality(scalars) >= 2 THEN NeverType
        ELSE IF scalars = {} THEN Obj(IntersectShapes(shapes))
        ELSE [kind |-> "intersection",
              name |-> (CHOOSE M \in scalars : TRUE).name,
              props |-> IntersectShapes(shapes)]

(***************************************************************************)
(* UnionToIntersection, ArrayToUnion, UnionToTuple, KeysToTuple.           *)
(***************************************************************************)
\* UnionToIntersection<U> =
\*   (U extends any ? (x: U)=>void : never) extends ((x: infer I)=>void) ? I : never
\* The first conditional distributes over U and yields one function type
\* per member; I is inferred from the parameter (contravariant) position of
\* each, and the candidates of such a position are intersected.
UnionToIntersection(Un) ==
    LET fns == {[x |-> M] : M \in Un}
        candidates == {f.x : f \in fns}
    IN  IntersectTypes(candidates)

\* ArrayToUnion<T> = T[number]
ArrayToUnion(tup) == {tup[i] : i \in DOMAIN tup}

\* T extends never ? never : (t: T) => T, distributed over the members of T:
\* the overloads of the function intersection UnionToIntersection builds.
Overloads(Tn) == {[t |-> M, returns |-> M] : M \in Tn}

\* The types `infer W` can bind in
\*   UnionToIntersection<...> extends (t: T) => infer W
\* W is inferred from the return type of the last overload; the order of the
\* members of a union is not specified, so any overload can be the last.
\* With no overload (T is never) the test fails and the result is [].
InferW(Tn) == {f.returns : f \in Overloads(Tn)}

\* Numeric property names: keyof yields a number literal for them.
NumericKeys == {"0"}

\* A slip that leaves out the `string &` filter.
StringKeyofAll(S) == {Lit(k) : k \in keyof(S)}

\* string & keyof T: the string-literal keys of T.
StringKeyof(S) == {Lit(k) : k \in keyof(S) \ NumericKeys}

\* `let x: [E1, ..., En] = [v1, ..., vm]`: same length, elementwise assignable.
AcceptsTuple(tv, tt) ==
    /\ Len(tv) = Len(tt)
    /\ \A i \in DOMAIN tv : Extends(tv[i], tt[i])

(***************************************************************************)
(* Data types and language types.                                          *)
(***************************************************************************)
StringDataType == {"str", "clob"}
TemporalDataType == {"date", "time", "datetime", "timestamp"}
IntegerDataType == {"int", "bigint", "bit", "year"}
RealDataType == {"real", "dec"}
BigintDataType == {"bigint", "bit"}
NumericDataType == IntegerDataType \cup RealDataType
BoolDataType == {"bool"}
ScalarDataType ==
    StringDataType \cup NumericDataType \cup TemporalDataType \cup BoolDataType
DataType == ScalarDataType \cup {"link", "multilink", "obj", "arr", "any"}

\* The representations of LangType: the scalar types, Record, array, and
\* the null types.
ScalarLangType == {"string", "number", "bigint", "boolean"}
NullLangType == {"null", "undefined"}
LangType ==
    ScalarLangType \cup {"Record<string,LangType>", "LangType[]"} \cup NullLangType

\* A slip that answers the whole numeric group for number.
DataTypeOfNumericGroup(L) ==
    IF L = "string" THEN {"str", "clob", "date", "time", "datetime", "timestamp"}
    ELSE IF L = "number" THEN NumericDataType
    ELSE IF L = "bigint" THEN {"bigint", "bit"}
    ELSE IF L = "boolean" THEN {"bool"}
    ELSE IF L = "LangType[]" THEN {"multilink", "arr"}
    ELSE IF L = "Record<string,LangType>" THEN {"link", "obj"}
    ELSE {"undefined"}

\* DataTypeOf<T>: the branches in the order of the source; the result is the
\* union of the listed tags, and the type undefined when no branch applies.
DataTypeOf(L) ==
    IF L = "string" THEN {"str", "clob", "date", "time", "datetime", "timestamp"}
    ELSE IF L = "number" THEN {"int", "real", "dec", "year"}
    ELSE IF L = "bigint" THEN {"bigint", "bit"}
    ELSE IF L = "boolean" THEN {"bool"}
    ELSE IF L = "LangType[]" THEN {"multilink", "arr"}
    ELSE IF L = "Record<string,LangType>" THEN {"link", "obj"}
    ELSE {"undefined"}

\* A slip that tests the numeric group before the bigint group.
LangTypeOfNumericFirst(DT) ==
    IF DT \in StringDataType \cup TemporalDataType THEN {"string"}
    ELSE IF DT \in NumericDataType THEN {"number"}
    ELSE IF DT \in BigintDataType THEN {"bigint"}
    ELSE IF DT \in BoolDataType THEN {"boolean"}
    ELSE IF DT = "undefined" THEN {"undefined"}
    ELSE IF DT = "null" THEN {"null"}
    ELSE IF DT \in {"multilink", "arr"} THEN {"LangType[]"}
    ELSE IF DT \in {"link", "obj"} THEN {"Record<string,LangType>"}
    ELSE never

\* LangTypeOf<DT>: the branches in the order of the source; never when no
\* branch applies.
LangTypeOf(DT) ==
    IF DT \in StringDataType \cup TemporalDataType THEN {"string"}
    ELSE IF DT \in BigintDataType THEN {"bigint"}
    ELSE IF DT \in NumericDataType THEN {"number"}
    ELSE IF DT \in BoolDataType THEN {"boolean"}
    ELSE IF DT = "undefined" THEN {"undefined"}
    ELSE IF DT = "null" THEN {"null"}
    ELSE IF DT \in {"multilink", "arr"} THEN {"LangType[]"}
    ELSE IF DT \in {"link", "obj"} THEN {"Record<string,LangType>"}
    ELSE never

(***************************************************************************)
(* Property definitions.                                                   *)
(***************************************************************************)
Req(ty) == [type |-> ty, optional |-> FALSE]
Opt(ty) == [type |-> ty, optional |-> TRUE]

number == {"number"}

CommonPropDef ==
    ("dt" :> Req(DataType)) @@ ("required" :> Opt({"boolean"}))
        @@ ("unique" :> Opt({"boolean"}))

\* A slip that leaves regex out of the string attributes.
StringPropDefNoRegex ==
    Intersect(CommonPropDef,
        ("dt" :> Req({"str"})) @@ ("minlen" :> Opt(number))
            @@ ("maxlen" :> Opt(number)) @@ ("choices" :> Opt({"string[]"})))

StringPropDef ==
    Intersect(CommonPropDef,
        ("dt" :> Req({"str"})) @@ ("minlen" :> Opt(number))
            @@ ("maxlen" :> Opt(number)) @@ ("regex" :> Opt({"RegExp"}))
            @@ ("choices" :> Opt({"string[]"})))

ClobPropDef ==
    Intersect(CommonPropDef,
        ("dt" :> Req({"clob"})) @@ ("minlen" :> Opt(number))
            @@ ("maxlen" :> Opt(number)))

IntPropDef ==
    Intersect(CommonPropDef,
        ("dt" :> Req({"int"})) @@ ("min" :> Opt(number))
            @@ ("max" :> Opt(number)) @@ ("step" :> Opt(number)))

\* A slip that copies the bounds of IntPropDef: plain numbers.
BigIntPropDefNumberBounds ==
    Intersect(CommonPropDef,
        ("dt" :> Req({"bigint"})) @@ ("min" :> Opt(number))
            @@ ("max" :> Opt(number)))

BigIntPropDef ==
    Intersect(CommonPropDef,
        ("dt" :> Req({"bigint"})) @@ ("min" :> Opt({"bigint"}))
            @@ ("max" :> Opt({"bigint"})))

RealPropDef ==
    Intersect(CommonPropDef,
        ("dt" :> Req({"real"})) @@ ("precision" :> Opt(number))
            @@ ("min" :> Opt(number)) @@ ("max" :> Opt(number)))

DecimalPropDef ==
    Intersect(CommonPropDef,
        ("dt" :> Req({"dec"}))
            @@ ("precision" :> Opt(number \cup {"[number, number]"}))
            @@ ("min" :> Opt(number)) @@ ("max" :> Opt(number)))

BitValuePropDef ==
    Intersect(CommonPropDef, ("dt" :> Req({"bit"})) @@ ("size" :> Opt(number)))

BoolPropDef == Intersect(CommonPropDef, "dt" :> Req({"bool"}))

DatePropDef == Intersect(CommonPropDef, "dt" :> Req({"date"}))

TimePropDef ==
    Intersect(CommonPropDef,
        ("dt" :> Req({"time"})) @@ ("precision" :> Opt(number)))

DateTimePropDef ==
    Intersect(CommonPropDef,
        ("dt" :> Req({"datetime"})) @@ ("precision" :> Opt(number)))

TimestampPropDef ==
    Intersect(CommonPropDef,
        ("dt" :> Req({"timestamp"})) @@ ("precision" :> Opt(number)))

YearPropDef == Intersect(CommonPropDef, "dt" :> Req({"year"}))

\* A slip that makes the target of a link optional.
ALinkPropDefOptionalTarget ==
    Intersect(CommonPropDef,
        ("dt" :> Req({"link"})) @@ ("target" :> Opt({"string"})))

ALinkPropDef ==
    Intersect(CommonPropDef,
        ("dt" :> Req({"link"})) @@ ("target" :> Req({"string"})))

\* The property definition types the source declares.
PropDefTypes ==
    {StringPropDef, ClobPropDef, IntPropDef, BigIntPropDef, RealPropDef,
     DecimalPropDef, BitValuePropDef, BoolPropDef, DatePropDef, TimePropDef,
     DateTimePropDef, TimestampPropDef, YearPropDef, ALinkPropDef}

\* A literal is accepted as a property definition when it type-checks
\* against one of the declared property definition types.
AcceptsPropDef(lit) == \E P \in PropDefTypes : Conforms(lit, P)

(***************************************************************************)
(* Classes and keys.  A value handed to KeyDataType is an object literal   *)
(* whose property values are string literals (Lit) or object literals      *)
(* (ObjLit); an object literal's own property values are abstracted to     *)
(* their types, as everywhere else.                                        *)
(***************************************************************************)
ObjLit(l) == [kind |-> "objlit", name |-> "", props |-> l]

ClassDef ==
    ("name" :> Req({"string"})) @@ ("key" :> Opt({"KeyDataType", "true"}))
        @@ ("unique" :> Opt({"KeyDataType[]"}))

\* A slip that admits every data type as a key participant.
KeyPropDataTypeAnyDataType == {Lit(t) : t \in DataType} \cup {Obj(ClassDef)}

\* ScalarDataType | ClassDef, as the set of its members.
KeyPropDataType == {Lit(t) : t \in ScalarDataType} \cup {Obj(ClassDef)}

\* Assignment of a value to a union of string literal types and object types.
AssignableToUnion(v, members) ==
    \E M \in members :
        IF M.kind = "literal" THEN v.kind = "literal" /\ v.name = M.name
        ELSE v.kind = "objlit" /\ Conforms(v.props, M.props)

\* { [P: string]: KeyPropDataType }: every property value is a
\* KeyPropDataType.
KeyDataType(lit) == \A P \in DOMAIN lit : AssignableToUnion(lit[P], KeyPropDataType)

(***************************************************************************)
(* Schema definitions.  SchemaDef and the model of the fixture (MyModel)   *)
(* are declared outside the sources at hand; the key of a class follows    *)
(* the schema form of ClassDef,                                            *)
(*     key?: (string & keyof ModelClassKey<M,CN>)[]                        *)
(* and the key shapes are those the fixture's keys name.                   *)
(***************************************************************************)
\* The classes of the fixture.
ClassNames == {"Order", "Product", "Item"}

\* The property names of each class of the fixture.
ModelClassPropName(CN) ==
    IF CN = "Order" THEN {"id", "time", "items"}
    ELSE IF CN = "Product" THEN {"code", "name", "msrp", "items"}
    ELSE {"order", "product", "qty", "price", "abc", "xyz", "klm"}

\* The property names of the key shape of each class.
ModelClassKey(CN) ==
    IF CN = "Order" THEN {"id"}
    ELSE IF CN = "Product" THEN {"code"}
    ELSE {"order", "product"}

\* The key of the untyped class definition: string[].
AClassDefKey(names, CN) == TRUE

\* (string & keyof ModelClassKey<M,CN>)[]: an array, of any length, of
\* names of the key shape.
ClassDefKey(names, CN) == \A i \in DOMAIN names : names[i] \in ModelClassKey(CN)

(***************************************************************************)
(* Error messages.  A message template is the sequence of its pieces: the  *)
(* literal text between placeholders, and the placeholders themselves.     *)
(* The component that substitutes the placeholders is not part of the      *)
(* sources at hand; FormatError follows its contract.                      *)
(***************************************************************************)
Str(tokens) == [kind |-> "string", tokens |-> tokens]
Undefined == [kind |-> "undefined", tokens |-> <<>>]
Inherited == [kind |-> "function", tokens |-> <<>>]
Failed == [kind |-> "failed", tokens |-> <<>>]
NoResult == [kind |-> "none", tokens |-> <<>>]

\* A slip that pastes the first template into the second entry.
repoErrorsSameTemplate ==
    ("CLASS_NOT_FOUND" :> Str(<<"Class '", "{class}", "' not found">>))
        @@ ("CLASS_ALREADY_EXISTS" :> Str(<<"Class '", "{class}", "' not found">>))

repoErrors ==
    ("CLASS_NOT_FOUND" :> Str(<<"Class '", "{class}", "' not found">>))
        @@ ("CLASS_ALREADY_EXISTS" :>
                Str(<<"Class '", "{class}", "' already exists">>))

\* The members every object literal inherits from Object.prototype.
ObjectPrototype == {"toString", "constructor"}

\* repoErrors[c]: the object's own property, else the inherited member,
\* else undefined.
Lookup(c) ==
    IF c \in DOMAIN repoErrors THEN repoErrors[c]
    ELSE IF c \in ObjectPrototype THEN Inherited
    ELSE Undefined

\* The placeholders a template may hold, and the name each stands for.
Placeholders == {"{class}", "{prop}"}

PlaceholderName(t) == IF t = "{class}" THEN "class" ELSE "prop"

\* The template with every placeholder that has a value replaced by it.
Substitute(tokens, values) ==
    [i \in DOMAIN tokens |->
        IF tokens[i] \in Placeholders /\ PlaceholderName(tokens[i]) \in DOMAIN values
        THEN values[PlaceholderName(tokens[i])]
        ELSE tokens[i]]

\* The message for a looked-up template: the substituted string; undefined
\* when there is no template; a failure when the result is not a string.
FormatError(t, values) ==
    IF t.kind = "string" THEN Str(Substitute(t.tokens, values))
    ELSE IF t.kind = "undefined" THEN Undefined
    ELSE Failed

(***************************************************************************)
(* Inputs.                                                                 *)
(***************************************************************************)
\* Property names of the fixture shapes User and Group.
XORKeys == {"username", "name", "members"}

\* The two-key universe used for longer tuples.
TupleKeys == {"name", "members"}

\* Property names of the KeysToTuple fixtures, and a numeric one.
K2TKeys == {"a", "b", "0"}

\* The declared type of each fixture property (a shared name has the same
\* type in every shape that declares it).
FieldType(k) ==
    IF k = "members" THEN {"string[]"}
    ELSE IF k = "b" THEN {"number"}
    ELSE {"string"}

\* Types of the values a literal may hold.
FieldValues == {"string", "string[]"}

\* Every shape over the keys K: each key absent, required or optional.
ShapesOver(K) ==
    UNION {{[k \in D |-> [type |-> FieldType(k), optional |-> f[k]]] :
                f \in [D -> BOOLEAN]} : D \in SUBSET K}

\* The shape that requires exactly the keys K.
RequiredShape(K) == [k \in K |-> [type |-> FieldType(k), optional |-> FALSE]]

\* Every object literal over the keys K.
LiteralsOver(K) == UNION {[D -> FieldValues] : D \in SUBSET K}

\* Tuples of shapes of length 1..n over the shapes S.
TuplesUpTo(S, n) == UNION {[1..m -> S] : m \in 1..n}

\* Sequences of length 0..n over S.
SeqsUpTo(S, n) == UNION {[1..m -> S] : m \in 0..n}

\* The member types unions are drawn from: "a", "b", string, number,
\* {a: string}, {b: number}, {a: string, b: number}.
Members ==
    {Lit("a"), Lit("b"), Prim("string"), Prim("number"),
     Obj(RequiredShape({"a"})), Obj(RequiredShape({"b"})),
     Obj(RequiredShape({"a", "b"}))}

\* A union never holds a literal together with its primitive type.
Reduced(Un) == Prim("string") \in Un => \A M \in Un : M.kind # "literal"

Unions == {Un \in SUBSET Members : Cardinality(Un) <= MaxMembers /\ Reduced(Un)}

\* The value types an array literal is built from.
ElementValues(Un) == Un \cup {Lit("a")}

\* The attributes the property definition types declare besides dt.
Attrs ==
    {"required", "unique", "minlen", "maxlen", "regex", "choices", "min", "max",
     "step", "precision", "size", "target", "origin", "originKey"}

\* The types of the values a literal gives attribute a: every type some
\* property definition type declares for a, and one no type declares for it.
AttrValues(a) ==
    IF a \in {"required", "unique"} THEN {"boolean", "string"}
    ELSE IF a \in {"min", "max"} THEN {"number", "bigint", "string"}
    ELSE IF a = "precision" THEN {"number", "[number, number]", "string"}
    ELSE IF a = "regex" THEN {"RegExp", "string"}
    ELSE IF a = "choices" THEN {"string[]", "string"}
    ELSE IF a \in {"target", "origin", "originKey"} THEN {"string", "number"}
    ELSE {"number", "string"}

AllAttrValues == UNION {AttrValues(a) : a \in Attrs}

\* The values a literal gives dt: every data type tag, and one that is none.
DtValues == DataType \cup {"blob"}

\* The attribute parts of property definition literals: at most MaxAttrs
\* attributes.
AttrLiterals ==
    UNION {{f \in [D -> AllAttrValues] : \A a \in D : f[a] \in AttrValues(a)} :
              D \in {D \in SUBSET Attrs : Cardinality(D) <= MaxAttrs}}

\* Property definition literals: with or without dt.
PropDefLiterals ==
    AttrLiterals \cup {f @@ ("dt" :> d) : f \in AttrLiterals, d \in DtValues}

\* Names of the participants of a key.
KeyNames == {"id", "order"}

\* The properties an object literal given as a participant may set, and the
\* types of the values it gives them.
ClassAttrs == {"name", "key", "unique", "dt"}

ClassAttrValues(a) ==
    IF a = "name" THEN {"string", "number"}
    ELSE IF a = "key" THEN {"true", "KeyDataType"}
    ELSE IF a = "unique" THEN {"KeyDataType[]"}
    ELSE {"string"}

ClassLiterals ==
    UNION {{f \in [D -> UNION {ClassAttrValues(a) : a \in ClassAttrs}] :
                \A a \in D : f[a] \in ClassAttrValues(a)} :
              D \in SUBSET ClassAttrs}

\* The values a key literal gives a participant: a data type tag (or a
\* string that is none), or an object literal.
Participants == {Lit(t) : t \in DtValues} \cup {ObjLit(l) : l \in ClassLiterals}

KeyLiterals == UNION {[D -> Participants] : D \in SUBSET KeyNames}

\* The names a key literal is built from: every property name of the
\* fixture's classes, and one no class has.
KeyLiteralNames ==
    UNION {ModelClassPropName(CN) : CN \in ClassNames} \cup {"missingField"}

\* Literals that set only what CommonPropDef declares.
CommonPropDefLiterals ==
    {l \in PropDefLiterals : DOMAIN l \subseteq {"dt", "required", "unique"}}

\* The codes looked up: the two of the table, one the table does not have,
\* and the names of inherited members.
ErrorCodes ==
    {"CLASS_NOT_FOUND", "CLASS_ALREADY_EXISTS", "PROP_NOT_FOUND"}
        \cup ObjectPrototype

\* Substitution values: names of the fixture's classes, for some of the
\* placeholder names.
SubstValues ==
    UNION {[D -> {"Order", "Item"}] : D \in SUBSET {"class", "prop"}}

EmptyLiteral == <<>>

xorIdle == T = <<>>
litIdle == val = EmptyLiteral /\ verdict = "pending"
unionIdle ==
    /\ U = {} /\ obj = <<>> /\ rest = {} /\ tuple = <<>> /\ steps = 0
    /\ I = UnknownType /\ tval = <<>>
lookupIdle == arg = "" /\ res = {}
plainIdle == uverdict = "pending"
keyIdle == keydt = <<>> /\ cls = "" /\ keynames = <<>>
errIdle == code = "" /\ subst = <<>> /\ tmpl = NoResult /\ msg = NoResult

InitXORPair ==
    /\ kind = "xor"
    /\ T \in [1..2 -> ShapesOver(XORKeys)]
    /\ val \in LiteralsOver(XORKeys)
    /\ verdict = "pending" /\ pc = "start"
    /\ unionIdle /\ lookupIdle
    /\ plainIdle /\ keyIdle /\ errIdle

InitXORTuple ==
    /\ kind = "xor"
    /\ T \in TuplesUpTo(ShapesOver(TupleKeys), MaxShapes)
    /\ val \in LiteralsOver(TupleKeys)
    /\ verdict = "pending" /\ pc = "start"
    /\ unionIdle /\ lookupIdle
    /\ plainIdle /\ keyIdle /\ errIdle

InitUnionToTuple ==
    /\ kind = "UnionToTuple"
    /\ U \in Unions
    /\ obj = <<>> /\ rest = {} /\ tuple = <<>> /\ steps = 0
    /\ I = UnknownType /\ tval = <<>>
    /\ pc = "start"
    /\ xorIdle /\ litIdle /\ lookupIdle
    /\ plainIdle /\ keyIdle /\ errIdle

InitKeysToTuple ==
    /\ kind = "KeysToTuple"
    /\ obj \in ShapesOver(K2TKeys)
    /\ U = {} /\ rest = {} /\ tuple = <<>> /\ steps = 0
    /\ I = UnknownType /\ tval = <<>>
    /\ pc = "start"
    /\ xorIdle /\ litIdle /\ lookupIdle
    /\ plainIdle /\ keyIdle /\ errIdle

InitUnionToIntersection ==
    /\ kind = "UnionToIntersection"
    /\ U \in Unions
    /\ obj = <<>> /\ rest = {} /\ tuple = <<>> /\ steps = 0
    /\ I = UnknownType /\ tval = <<>>
    /\ pc = "start"
    /\ xorIdle /\ litIdle /\ lookupIdle
    /\ plainIdle /\ keyIdle /\ errIdle

InitDataTypeOf ==
    /\ kind = "DataTypeOf"
    /\ arg \in LangType
    /\ res = {} /\ pc = "start"
    /\ xorIdle /\ litIdle /\ unionIdle
    /\ plainIdle /\ keyIdle /\ errIdle

InitLangTypeOf ==
    /\ kind = "LangTypeOf"
    /\ arg \in DataType \cup NullLangType
    /\ res = {} /\ pc = "start"
    /\ xorIdle /\ litIdle /\ unionIdle
    /\ plainIdle /\ keyIdle /\ errIdle

InitPropDef ==
    /\ kind = "PropDef"
    /\ val \in PropDefLiterals
    /\ verdict = "pending" /\ pc = "start"
    /\ xorIdle /\ unionIdle /\ lookupIdle
    /\ plainIdle /\ keyIdle /\ errIdle

InitKeyDataType ==
    /\ kind = "KeyDataType"
    /\ keydt \in KeyLiterals
    /\ cls = "" /\ keynames = <<>>
    /\ verdict = "pending" /\ val = EmptyLiteral /\ pc = "start"
    /\ xorIdle /\ unionIdle /\ lookupIdle /\ plainIdle /\ errIdle

InitSchemaKey ==
    /\ kind = "SchemaKey"
    /\ cls \in ClassNames
    /\ keynames \in SeqsUpTo(KeyLiteralNames, MaxKeyLen)
    /\ keydt = <<>>
    /\ verdict = "pending" /\ val = EmptyLiteral /\ pc = "start"
    /\ xorIdle /\ unionIdle /\ lookupIdle /\ plainIdle /\ errIdle

InitCommonPropDef ==
    /\ kind = "CommonPropDef"
    /\ val \in CommonPropDefLiterals
    /\ verdict = "pending" /\ pc = "start"
    /\ xorIdle /\ unionIdle /\ lookupIdle
    /\ plainIdle /\ keyIdle /\ errIdle

InitRepoErrors ==
    /\ kind = "repoErrors"
    /\ code \in ErrorCodes
    /\ subst \in SubstValues
    /\ tmpl = NoResult /\ msg = NoResult
    /\ pc = "start"
    /\ xorIdle /\ litIdle /\ unionIdle /\ lookupIdle /\ plainIdle /\ keyIdle

Init ==
    \/ InitXORPair
    \/ InitXORTuple
    \/ InitUnionToTuple
    \/ InitKeysToTuple
    \/ InitUnionToIntersection
    \/ InitDataTypeOf
    \/ InitLangTypeOf
    \/ InitPropDef
    \/ InitKeyDataType
    \/ InitSchemaKey
    \/ InitCommonPropDef
    \/ InitRepoErrors

(***************************************************************************)
(* Actions.                                                                *)
(***************************************************************************)
\* let val: XOR<T> = {...}
CheckXOR ==
    /\ kind = "xor"
    /\ pc = "start"
    /\ verdict' = IF AcceptsLiteral(val, XOR(T)) THEN "accepted" ELSE "rejected"
    /\ pc' = "done"
    /\ UNCHANGED <<kind, T, val, U, obj, rest, tuple, steps, I, tval, arg, res>>
    /\ UNCHANGED <<uverdict, keyVars, errVars>>

\* let val: T[number] = {...}: the same literal against the plain union.
CheckUnion ==
    /\ kind = "xor"
    /\ uverdict = "pending"
    /\ uverdict' = IF AcceptsLiteral(val, ArrayToUnion(T)) THEN "accepted"
                   ELSE "rejected"
    /\ UNCHANGED <<kind, T, val, verdict, U, obj, rest, tuple, steps, I, tval,
                   arg, res, pc, keyVars, errVars>>

\* UnionToTuple<U>: the recursion starts on the whole union.
ApplyUnionToTuple ==
    /\ kind = "UnionToTuple"
    /\ pc = "start"
    /\ rest' = U
    /\ pc' = "expanding"
    /\ UNCHANGED <<kind, T, val, verdict, U, obj, tuple, steps, I, tval, arg, res>>
    /\ UNCHANGED <<uverdict, keyVars, errVars>>

\* KeysToTuple<obj> = UnionToTuple<string & keyof obj>
ApplyKeysToTuple ==
    /\ kind = "KeysToTuple"
    /\ pc = "start"
    /\ U' = StringKeyof(obj)
    /\ rest' = U'
    /\ pc' = "expanding"
    /\ UNCHANGED <<kind, T, val, verdict, obj, tuple, steps, I, tval, arg, res>>
    /\ UNCHANGED <<uverdict, keyVars, errVars>>

\* One unfolding of [...UnionToTuple<Exclude<T, W>>, W]: W becomes the last
\* element of the tuple of this level, in front of the elements the outer
\* levels have already placed, and the recursion goes on with Exclude<T, W>.
UnionToTupleStep ==
    /\ pc = "expanding"
    /\ rest # {}
    /\ \E W \in InferW(rest) :
          /\ tuple' = <<W>> \o tuple
          /\ rest' = Exclude(rest, W)
    /\ steps' = steps + 1
    /\ UNCHANGED <<kind, T, val, verdict, U, obj, I, tval, arg, res, pc>>
    /\ UNCHANGED <<uverdict, keyVars, errVars>>

\* The false branch: T is never, the result of this level is [].
UnionToTupleEnd ==
    /\ pc = "expanding"
    /\ rest = {}
    /\ pc' = "typed"
    /\ UNCHANGED <<kind, T, val, verdict, U, obj, rest, tuple, steps, I, tval,
                   arg, res>>
    /\ UNCHANGED <<uverdict, keyVars, errVars>>

\* let tval: UnionToTuple<U> = [...]
AssignTuple ==
    /\ pc = "typed"
    /\ \E tv \in SeqsUpTo(ElementValues(U), MaxTupleLen) :
          /\ tval' = tv
          /\ verdict' = IF AcceptsTuple(tv, tuple) THEN "accepted" ELSE "rejected"
    /\ pc' = "done"
    /\ UNCHANGED <<kind, T, val, U, obj, rest, tuple, steps, I, arg, res>>
    /\ UNCHANGED <<uverdict, keyVars, errVars>>

\* UnionToIntersection<U>
ApplyUnionToIntersection ==
    /\ kind = "UnionToIntersection"
    /\ pc = "start"
    /\ I' = UnionToIntersection(U)
    /\ pc' = "done"
    /\ UNCHANGED <<kind, T, val, verdict, U, obj, rest, tuple, steps, tval, arg,
                   res>>
    /\ UNCHANGED <<uverdict, keyVars, errVars>>

\* DataTypeOf<arg>
ApplyDataTypeOf ==
    /\ kind = "DataTypeOf"
    /\ pc = "start"
    /\ res' = DataTypeOf(arg)
    /\ pc' = "done"
    /\ UNCHANGED <<kind, T, val, verdict, U, obj, rest, tuple, steps, I, tval, arg>>
    /\ UNCHANGED <<uverdict, keyVars, errVars>>

\* LangTypeOf<arg>
ApplyLangTypeOf ==
    /\ kind = "LangTypeOf"
    /\ pc = "start"
    /\ res' = LangTypeOf(arg)
    /\ pc' = "done"
    /\ UNCHANGED <<kind, T, val, verdict, U, obj, rest, tuple, steps, I, tval, arg>>
    /\ UNCHANGED <<uverdict, keyVars, errVars>>

\* let val: <a property definition type> = {...}
CheckPropDef ==
    /\ kind = "PropDef"
    /\ pc = "start"
    /\ verdict' = IF AcceptsPropDef(val) THEN "accepted" ELSE "rejected"
    /\ pc' = "done"
    /\ UNCHANGED <<kind, T, val, U, obj, rest, tuple, steps, I, tval, arg, res>>
    /\ UNCHANGED <<uverdict, keyVars, errVars>>

\* let keydt: KeyDataType = {...}
CheckKeyDataType ==
    /\ kind = "KeyDataType"
    /\ pc = "start"
    /\ verdict' = IF KeyDataType(keydt) THEN "accepted" ELSE "rejected"
    /\ pc' = "done"
    /\ UNCHANGED <<kind, T, val, U, obj, rest, tuple, steps, I, tval, arg, res>>
    /\ UNCHANGED <<uverdict, keyVars, errVars>>

\* classes: { cls: { ..., key: keynames } }
CheckSchemaKey ==
    /\ kind = "SchemaKey"
    /\ pc = "start"
    /\ verdict' = IF ClassDefKey(keynames, cls) THEN "accepted" ELSE "rejected"
    /\ pc' = "done"
    /\ UNCHANGED <<kind, T, val, U, obj, rest, tuple, steps, I, tval, arg, res>>
    /\ UNCHANGED <<uverdict, keyVars, errVars>>

\* let val: CommonPropDef = {...}
CheckCommonPropDef ==
    /\ kind = "CommonPropDef"
    /\ pc = "start"
    /\ verdict' = IF Conforms(val, CommonPropDef) THEN "accepted" ELSE "rejected"
    /\ pc' = "done"
    /\ UNCHANGED <<kind, T, val, U, obj, rest, tuple, steps, I, tval, arg, res>>
    /\ UNCHANGED <<uverdict, keyVars, errVars>>

\* tmpl = repoErrors[code]
LookupError ==
    /\ kind = "repoErrors"
    /\ pc = "start"
    /\ tmpl' = Lookup(code)
    /\ pc' = "found"
    /\ UNCHANGED <<kind, T, val, verdict, U, obj, rest, tuple, steps, I, tval,
                   arg, res, uverdict, keyVars, code, subst, msg>>

\* The message for tmpl and the substitution values.
SubstituteError ==
    /\ kind = "repoErrors"
    /\ pc = "found"
    /\ msg' = FormatError(tmpl, subst)
    /\ pc' = "done"
    /\ UNCHANGED <<kind, T, val, verdict, U, obj, rest, tuple, steps, I, tval,
                   arg, res, uverdict, keyVars, code, subst, tmpl>>

Next ==
    \/ CheckXOR
    \/ CheckUnion
    \/ ApplyUnionToTuple
    \/ ApplyKeysToTuple
    \/ UnionToTupleStep
    \/ UnionToTupleEnd
    \/ AssignTuple
    \/ ApplyUnionToIntersection
    \/ ApplyDataTypeOf
    \/ ApplyLangTypeOf
    \/ CheckPropDef
    \/ CheckKeyDataType
    \/ CheckSchemaKey
    \/ CheckCommonPropDef
    \/ LookupError
    \/ SubstituteError

Spec == Init /\ [][Next]_vars

(***************************************************************************)
(* Properties of XOR.                                                      *)
(***************************************************************************)
Checked == verdict # "pending"

\* The keys of shape i that no other shape of the tuple declares.
ExclusiveKeys(tup, i) ==
    keyof(tup[i]) \ UNION {keyof(tup[j]) : j \in (DOMAIN tup) \ {i}}

\* A pair of shapes whose key sets overlap and that each have an exclusive key.
OverlappingPair(tup) ==
    /\ Len(tup) = 2
    /\ keyof(tup[1]) \cap keyof(tup[2]) # {}
    /\ ExclusiveKeys(tup, 1) # {}
    /\ ExclusiveKeys(tup, 2) # {}

\* The literal sets an exclusive key of each of the two shapes.
MixesExclusive(lit, tup) ==
    /\ (DOMAIN lit) \cap ExclusiveKeys(tup, 1) # {}
    /\ (DOMAIN lit) \cap ExclusiveKeys(tup, 2) # {}

\* C1: for a pair of shapes A, B with overlapping key sets and an exclusive
\* key each, XOR<[A,B]> accepts a literal that conforms to A and sets only
\* A's keys, accepts one that conforms to B and sets only B's keys, and
\* rejects every literal that sets an exclusive key of A together with an
\* exclusive key of B.
C1_XORPair ==
    (kind = "xor" /\ Checked /\ OverlappingPair(T)) =>
        /\ Conforms(val, T[1]) => verdict = "accepted"
        /\ Conforms(val, T[2]) => verdict = "accepted"
        /\ MixesExclusive(val, T) => verdict = "rejected"

\* The fixture: User = {username, name}, Group = {name, members?}.
User == [k \in {"username", "name"} |-> [type |-> FieldType(k), optional |-> FALSE]]
Group ==
    [k \in {"name", "members"} |-> [type |-> FieldType(k), optional |-> k = "members"]]

\* o2 of the fixture: {username: "a", name: "b", members: []} is rejected.
C1_Witness ==
    /\ kind = "xor" /\ T = <<User, Group>>
    /\ val = [k \in XORKeys |-> IF k = "members" THEN "string[]" ELSE "string"]
    /\ verdict = "rejected"

\* The shapes of the tuple the literal conforms to.
ConformingShapes(lit, tup) == {tup[i] : i \in {j \in DOMAIN tup : Conforms(lit, tup[j])}}

\* C2 as stated: a literal XOR accepts conforms to exactly one shape of the
\* tuple (to at least one, and to no second one).
C2_Original ==
    (kind = "xor" /\ verdict = "accepted") =>
        Cardinality(ConformingShapes(val, T)) = 1

\* C2 (amended): XOR accepts a literal exactly when the literal conforms
\* fully to at least one shape of the tuple, setting no key outside that
\* shape; it conforms to a second shape as well only when every key it sets
\* is declared by both and it leaves unset only optional keys of either.
C2_XORAtLeastOne ==
    (kind = "xor" /\ Checked) =>
        /\ verdict = "accepted" <=> ConformingShapes(val, T) # {}
        /\ \A S1, S2 \in ConformingShapes(val, T) :
              /\ DOMAIN val \subseteq keyof(S1) \cap keyof(S2)
              /\ \A k \in (keyof(S1) \cup keyof(S2)) \ DOMAIN val :
                    k \in keyof(S1) => S1[k].optional

\* {name: "c"} against XOR<[{name}, {name, members?}]> conforms to both.
C2_Witness ==
    /\ kind = "xor" /\ verdict = "accepted"
    /\ Len(T) = 2 /\ keyof(T[1]) = {"name"} /\ T[2] = Group
    /\ val = [k \in {"name"} |-> "string"]
    /\ Cardinality(ConformingShapes(val, T)) = 2

\* The keys declared by two or more shapes of the tuple.
SharedKeys(tup) ==
    {k \in UnionKeys(tup) :
        Cardinality({i \in DOMAIN tup : k \in keyof(tup[i])}) >= 2}

\* The literal sets shared keys only, at least one, with admitted values.
SetsOnlyShared(lit, tup) ==
    /\ DOMAIN lit # {}
    /\ DOMAIN lit \subseteq SharedKeys(tup)
    /\ \A k \in DOMAIN lit : lit[k] \in FieldType(k)

\* C3 as stated: a literal that sets only the shared key of a pair
\* type-checks as XOR<[A,B]>, and a key declared by two or more shapes is
\* never mapped to never in any alternative.
C3_Original ==
    (kind = "xor" /\ Checked) =>
        /\ (Len(T) = 2 /\ SetsOnlyShared(val, T)) => verdict = "accepted"
        /\ \A i \in DOMAIN T : \A k \in SharedKeys(T) :
              XORAlternative(T, i)[k].type # never

\* C3 (amended): a literal that sets only shared keys of a pair type-checks
\* as XOR<[A,B]> exactly when it sets every required key of A or every
\* required key of B; alternative i maps a key to never exactly when shape
\* i does not declare it, so a key declared by every shape is never
\* forbidden, while a key shared by only some shapes is forbidden in the
\* alternatives of the others.
C3_SharedKeys ==
    (kind = "xor" /\ Checked) =>
        /\ (Len(T) = 2 /\ SetsOnlyShared(val, T)) =>
              (verdict = "accepted" <=>
                 \E i \in DOMAIN T :
                    \A k \in keyof(T[i]) : T[i][k].optional \/ k \in DOMAIN val)
        /\ \A i \in DOMAIN T : \A k \in UnionKeys(T) :
              XORAlternative(T, i)[k].type = never <=> k \notin keyof(T[i])

\* Three shapes {name}, {name, members}, {members}: name is shared by the
\* first two and forbidden in the alternative of the third.
C3_Witness ==
    /\ kind = "xor" /\ Checked /\ Len(T) = 3
    /\ keyof(T[1]) = {"name"} /\ keyof(T[2]) = {"name", "members"}
    /\ keyof(T[3]) = {"members"}
    /\ "name" \in SharedKeys(T)
    /\ XORAlternative(T, 3)["name"].type = never
    /\ val = [k \in {"name"} |-> "string"] /\ verdict = "accepted"

(***************************************************************************)
(* Properties of UnionToTuple, KeysToTuple and UnionToIntersection.        *)
(***************************************************************************)
\* The tuple type is complete: the recursion has reached its false branch.
Typed == pc \in {"typed", "done"}

\* The indices at which M occurs in the tuple.
Occurrences(M, tup) == {i \in DOMAIN tup : tup[i] = M}

\* Every member is a literal or an object type.
LiteralOrObject(Un) == \A M \in Un : M.kind \in {"literal", "object"}

\* C4: for a union U of k distinct literal or object members, UnionToTuple<U>
\* has exactly k elements, holds each member of U exactly once, and
\* ArrayToUnion of it is U again; a three-element array literal is rejected
\* by the tuple of a two-member union.
C4_Original ==
    (kind = "UnionToTuple" /\ Typed /\ LiteralOrObject(U)) =>
        /\ Len(tuple) = Cardinality(U)
        /\ \A M \in U : Cardinality(Occurrences(M, tuple)) = 1
        /\ ArrayToUnion(tuple) = U
        /\ (pc = "done" /\ Cardinality(U) = 2 /\ Len(tval) = 3) =>
              verdict = "rejected"

\* The string-literal types of the non-numeric names among K.
NameLiterals(K) == {Lit(k) : k \in K \cap {"a", "b"}}

\* C5: KeysToTuple of a shape with no fields is the empty tuple; of a shape
\* with the fields a and b it is a two-element tuple holding exactly the
\* names a and b, each once (in general: exactly the string names of the
\* shape, each once), so an array literal that repeats a name is rejected.
C5_KeysToTuple ==
    (kind = "KeysToTuple" /\ Typed) =>
        /\ keyof(obj) = {} => tuple = <<>>
        /\ keyof(obj) = {"a", "b"} =>
              /\ Len(tuple) = 2
              /\ ArrayToUnion(tuple) = {Lit("a"), Lit("b")}
        /\ Len(tuple) = Cardinality(NameLiterals(keyof(obj)))
        /\ \A M \in NameLiterals(keyof(obj)) :
              Cardinality(Occurrences(M, tuple)) = 1
        /\ ArrayToUnion(tuple) = NameLiterals(keyof(obj))
        /\ (pc = "done" /\ \E i, j \in DOMAIN tval : i # j /\ tval[i] = tval[j]) =>
              verdict = "rejected"

\* kt4 of the fixture: ["a", "b", "b"] is rejected by KeysToTuple<{a, b}>.
C5_Witness ==
    /\ kind = "KeysToTuple" /\ pc = "done"
    /\ keyof(obj) = {"a", "b"}
    /\ Len(tuple) = 2
    /\ tval = <<Lit("a"), Lit("b"), Lit("b")>>
    /\ verdict = "rejected"

\* C6: UnionToIntersection of a union of object types has every property of
\* every member, with the member's type; of a union of two or more scalar
\* types (string | number) it is never.
C6_UnionToIntersection ==
    (kind = "UnionToIntersection" /\ pc = "done" /\ U # {}) =>
        /\ (\A M \in U : M.kind = "object") =>
              /\ I.kind = "object"
              /\ \A M \in U : \A k \in DOMAIN M.props :
                    k \in DOMAIN I.props /\ I.props[k] = M.props[k]
              /\ DOMAIN I.props = UNION {DOMAIN M.props : M \in U}
        /\ ((\A M \in U : M.kind \in {"literal", "primitive"})
              /\ Cardinality(U) >= 2) => I = NeverType

\* {a: string} | {b: number} becomes {a: string} & {b: number}.
C6_WitnessObjects ==
    /\ kind = "UnionToIntersection" /\ pc = "done"
    /\ U = {Obj(RequiredShape({"a"})), Obj(RequiredShape({"b"}))}
    /\ I = Obj(RequiredShape({"a", "b"}))

\* string | number becomes never.
C6_WitnessScalars ==
    /\ kind = "UnionToIntersection" /\ pc = "done"
    /\ U = {Prim("string"), Prim("number")}
    /\ I = NeverType

(***************************************************************************)
(* Properties of DataTypeOf and LangTypeOf.                                *)
(***************************************************************************)
\* The host language types the claims name: string, number, bigint,
\* boolean, array and record.
HostTypes == ScalarLangType \cup {"LangType[]", "Record<string,LangType>"}

\* C7: for every host type L among string, number, bigint, boolean, array
\* and record, DataTypeOf<L> is exactly the set of tags DT with
\* LangTypeOf<DT> = L; for number it is "int" | "real" | "dec" | "year".
C7_DataTypeOfInverse ==
    (kind = "DataTypeOf" /\ pc = "done" /\ arg \in HostTypes) =>
        /\ res = {DT \in DataType : LangTypeOf(DT) = {arg}}
        /\ arg = "number" => res = {"int", "real", "dec", "year"}

\* DataTypeOf<number> has been evaluated.
C7_Witness ==
    /\ kind = "DataTypeOf" /\ pc = "done" /\ arg = "number"
    /\ res = {"int", "real", "dec", "year"}

\* C8: LangTypeOf maps str, clob, date, time, datetime, timestamp to string;
\* int, real, dec, year to number; bigint and bit to bigint (not number);
\* bool to boolean; multilink and arr to an array; link and obj to a record.
C8_LangTypeOfTable ==
    (kind = "LangTypeOf" /\ pc = "done") =>
        /\ arg \in {"str", "clob", "date", "time", "datetime", "timestamp"} =>
              res = {"string"}
        /\ arg \in {"int", "real", "dec", "year"} => res = {"number"}
        /\ arg \in {"bigint", "bit"} => res = {"bigint"}
        /\ arg = "bool" => res = {"boolean"}
        /\ arg \in {"multilink", "arr"} => res = {"LangType[]"}
        /\ arg \in {"link", "obj"} => res = {"Record<string,LangType>"}

\* LangTypeOf<"bit">, a tag of both the bigint and the numeric group, is bigint.
C8_Witness ==
    /\ kind = "LangTypeOf" /\ pc = "done" /\ arg = "bit"
    /\ arg \in BigintDataType \cap NumericDataType
    /\ res = {"bigint"}

(***************************************************************************)
(* Properties of the property definition types.                            *)
(***************************************************************************)
\* The attributes the claims hold legal for a tag: the tag's own attributes
\* plus required and unique.
LegalAttrs(tag) ==
    {"required", "unique"} \cup
    (IF tag = "str" THEN {"minlen", "maxlen", "regex", "choices"}
     ELSE IF tag = "clob" THEN {"minlen", "maxlen"}
     ELSE IF tag = "int" THEN {"min", "max", "step"}
     ELSE IF tag = "bigint" THEN {"min", "max"}
     ELSE IF tag \in {"real", "dec"} THEN {"precision", "min", "max"}
     ELSE IF tag = "bit" THEN {"size"}
     ELSE IF tag \in {"time", "datetime", "timestamp"} THEN {"precision"}
     ELSE IF tag = "link" THEN {"target"}
     ELSE {})

\* The tags for which the source declares a property definition type.
DeclaredTags ==
    {"str", "clob", "int", "bigint", "real", "dec", "bit", "bool", "date",
     "time", "datetime", "timestamp", "year", "link"}

\* The value types attribute a of a definition tagged tag is declared with.
LegalValues(tag, a) ==
    IF a \in {"required", "unique"} THEN {"boolean"}
    ELSE IF a \in {"min", "max"} /\ tag = "bigint" THEN {"bigint"}
    ELSE IF a = "precision" /\ tag = "dec" THEN {"number", "[number, number]"}
    ELSE IF a = "regex" THEN {"RegExp"}
    ELSE IF a = "choices" THEN {"string[]"}
    ELSE IF a \in {"target", "origin", "originKey"} THEN {"string"}
    ELSE {"number"}

\* The attributes, besides dt, the literal sets.
AttrsOf(lit) == (DOMAIN lit) \ {"dt"}

\* The literal carries a tag for which a property definition type is
\* declared, and every attribute it sets is legal for the tag.
TaggedAndLegal(lit) ==
    /\ "dt" \in DOMAIN lit
    /\ lit["dt"] \in DeclaredTags
    /\ AttrsOf(lit) \subseteq LegalAttrs(lit["dt"])

\* Every attribute the literal sets holds a value of the declared type.
WellTyped(lit) ==
    \A a \in AttrsOf(lit) : lit[a] \in LegalValues(lit["dt"], a)

ExclusiveToOtherTags == Attrs \ LegalAttrs("str")

\* C10: a definition tagged "str" accepts minlen, maxlen, regex and choices
\* and rejects the attributes exclusive to other tags, such as precision; a
\* definition tagged "dec" accepts a precision that is a number and one
\* that is a pair of numbers.
C10_StrAndDec ==
    (kind = "PropDef" /\ pc = "done" /\ "dt" \in DOMAIN val) =>
        /\ (/\ val["dt"] = "str"
            /\ AttrsOf(val) \subseteq {"minlen", "maxlen", "regex", "choices"}
            /\ WellTyped(val)) => verdict = "accepted"
        /\ (val["dt"] = "str" /\ AttrsOf(val) \cap ExclusiveToOtherTags # {}) =>
              verdict = "rejected"
        /\ (/\ val["dt"] = "dec"
            /\ "precision" \in DOMAIN val
            /\ val["precision"] \in {"number", "[number, number]"}
            /\ AttrsOf(val) \subseteq {"precision", "min", "max"}
            /\ WellTyped(val)) => verdict = "accepted"

\* msrp of the fixture: {dt: "dec", min: 0, precision: [10, 2]} is accepted.
C10_Witness ==
    /\ kind = "PropDef" /\ pc = "done"
    /\ val = ("dt" :> "dec") @@ ("min" :> "number")
                @@ ("precision" :> "[number, number]")
    /\ verdict = "accepted"

\* {dt: "str", precision: 3} is rejected.
C10_WitnessStr ==
    /\ kind = "PropDef" /\ pc = "done"
    /\ val = ("dt" :> "str") @@ ("precision" :> "number")
    /\ verdict = "rejected"

(***************************************************************************)
(* Bounds of numeric property definitions.                                 *)
(***************************************************************************)
\* The bounds the literal sets.
BoundsOf(lit) == DOMAIN lit \cap {"min", "max"}

\* The literal sets bounds, all of value type ty, and nothing else.
OnlyBoundsOf(lit, ty) ==
    /\ BoundsOf(lit) # {}
    /\ AttrsOf(lit) = BoundsOf(lit)
    /\ \A a \in BoundsOf(lit) : lit[a] = ty

\* C11: the bounds of a definition tagged "int" or "real" are plain numbers
\* and those of one tagged "bigint" are bigints: a definition that sets only
\* bounds of the right representation is accepted, and one that sets a
\* bound of the other representation is rejected.
C11_NumericBounds ==
    (kind = "PropDef" /\ pc = "done" /\ "dt" \in DOMAIN val) =>
        /\ (val["dt"] \in {"int", "real"} /\ OnlyBoundsOf(val, "number")) =>
              verdict = "accepted"
        /\ (val["dt"] = "bigint" /\ OnlyBoundsOf(val, "bigint")) =>
              verdict = "accepted"
        /\ (/\ val["dt"] \in {"int", "real"}
            /\ \E a \in BoundsOf(val) : val[a] = "bigint") => verdict = "rejected"
        /\ (/\ val["dt"] = "bigint"
            /\ \E a \in BoundsOf(val) : val[a] = "number") => verdict = "rejected"

\* {dt: "bigint", min: 0} (a plain number) is rejected.
C11_Witness ==
    /\ kind = "PropDef" /\ pc = "done"
    /\ val = ("dt" :> "bigint") @@ ("min" :> "number")
    /\ verdict = "rejected"

\* {dt: "int", min: 0n, max: 0n} (bigints) is rejected.
C11_WitnessInt ==
    /\ kind = "PropDef" /\ pc = "done"
    /\ val = ("dt" :> "int") @@ ("min" :> "bigint") @@ ("max" :> "bigint")
    /\ verdict = "rejected"

(***************************************************************************)
(* Properties of keys.                                                     *)
(***************************************************************************)
\* The scalar data type tags.
ScalarTags ==
    {"str", "clob", "int", "bigint", "real", "dec", "bit", "bool", "date",
     "time", "datetime", "timestamp", "year"}

\* The participant is the tag of a scalar data type.
IsScalarTag(v) == v.kind = "literal" /\ v.name \in ScalarTags

\* The participant is a class: an object with a name that is a string, at
\* most a key and unique constraints besides, and nothing else.
IsClassReference(v) ==
    /\ v.kind = "objlit"
    /\ "name" \in DOMAIN v.props /\ v.props["name"] = "string"
    /\ DOMAIN v.props \subseteq {"name", "key", "unique"}

\* C12: a key data type is accepted exactly when every participant is a
\* scalar data type or a class reference; one with a participant tagged
\* "arr", "obj" or "multilink" is rejected.
C12_KeyParticipants ==
    (kind = "KeyDataType" /\ pc = "done") =>
        /\ verdict = "accepted" <=>
              \A P \in DOMAIN keydt :
                  IsScalarTag(keydt[P]) \/ IsClassReference(keydt[P])
        /\ (\E P \in DOMAIN keydt :
                /\ keydt[P].kind = "literal"
                /\ keydt[P].name \in {"arr", "obj", "multilink"}) =>
              verdict = "rejected"

\* {id: "int", order: "arr"} is rejected.
C12_Witness ==
    /\ kind = "KeyDataType" /\ pc = "done"
    /\ keydt = ("id" :> Lit("int")) @@ ("order" :> Lit("arr"))
    /\ verdict = "rejected"

\* {id: "int", order: {name: "Order", key: true}} is accepted.
C12_WitnessClass ==
    /\ kind = "KeyDataType" /\ pc = "done"
    /\ keydt = ("id" :> Lit("int"))
                  @@ ("order" :> ObjLit(("name" :> "string") @@ ("key" :> "true")))
    /\ verdict = "accepted"

\* The keys the fixture gives its classes.
FixtureKey(CN) ==
    IF CN = "Order" THEN <<"id">>
    ELSE IF CN = "Product" THEN <<"code">>
    ELSE <<"order", "product">>

\* The names the key literal holds.
NamesIn(names) == {names[i] : i \in DOMAIN names}

\* C13: the key of a class is accepted when every name in it is a property
\* name of the key shape of the class, so the keys of the fixture (Order
\* with ["id"], Product with ["code"], Item with ["order", "product"]) are
\* accepted; a key naming a name outside the key shape is rejected, and so
\* is, for every class, a key naming missingField.
C13_SchemaKey ==
    (kind = "SchemaKey" /\ pc = "done") =>
        /\ keynames = FixtureKey(cls) => verdict = "accepted"
        /\ verdict = "accepted" <=>
              NamesIn(keynames) \subseteq
                  (IF cls = "Order" THEN {"id"}
                   ELSE IF cls = "Product" THEN {"code"}
                   ELSE {"order", "product"})
        /\ "missingField" \in NamesIn(keynames) => verdict = "rejected"

\* Item with ["order", "product"] is accepted.
C13_Witness ==
    /\ kind = "SchemaKey" /\ pc = "done"
    /\ cls = "Item" /\ keynames = <<"order", "product">>
    /\ verdict = "accepted"

\* Order with ["missingField"] is rejected.
C13_WitnessMissing ==
    /\ kind = "SchemaKey" /\ pc = "done"
    /\ cls = "Order" /\ keynames = <<"missingField">>
    /\ verdict = "rejected"

(***************************************************************************)
(* Coverage of the data types by the property definition types.            *)
(***************************************************************************)
\* The tags of the data types listed: string, integer, real, decimal,
\* boolean, temporal, link, multilink and structured object.
ListedDataTypes ==
    {"str", "clob", "int", "bigint", "real", "dec", "bool", "date", "time",
     "datetime", "timestamp", "link", "multilink", "obj"}

\* items of the fixture: {dt: "multilink", origin: "Item", originKey: "order"}
FixtureMultilink ==
    ("dt" :> "multilink") @@ ("origin" :> "string") @@ ("originKey" :> "string")

\* C14: every listed data type has a declared property definition type whose
\* tag is that data type, so that the multilink definition of the fixture is
\* accepted.
C14_Original ==
    (kind = "PropDef" /\ pc = "done" /\ "dt" \in DOMAIN val) =>
        /\ val["dt"] \in ListedDataTypes =>
              \E P \in PropDefTypes : P["dt"].type = {val["dt"]}
        /\ val = FixtureMultilink => verdict = "accepted"

\* The seventeen values listed for the data-type discriminator.
ListedTags ==
    {"str", "clob", "int", "bigint", "real", "dec", "bit", "bool", "date",
     "time", "datetime", "timestamp", "year", "link", "multilink", "obj", "arr"}

\* C15: the discriminator dt takes exactly the seventeen listed values: a
\* definition whose other attributes are in order is accepted if and only if
\* its tag is one of them.
C15_Original ==
    (/\ kind = "CommonPropDef" /\ pc = "done"
     /\ "dt" \in DOMAIN val
     /\ \A a \in AttrsOf(val) : val[a] = "boolean") =>
        (verdict = "accepted" <=> val["dt"] \in ListedTags)

(***************************************************************************)
(* Properties of the error messages.                                       *)
(***************************************************************************)
\* The pieces of a sequence.
Pieces(tokens) == {tokens[i] : i \in DOMAIN tokens}

\* The recognized codes.
RecognizedCodes == {"CLASS_NOT_FOUND", "CLASS_ALREADY_EXISTS"}

\* C16: each recognized code has a template containing the {class}
\* placeholder, and with a value for class the message is the template of
\* that code with the value in the placeholder's place, no placeholder
\* left; for an unrecognized code the lookup yields no template of any code
\* and the message is undefined or a failure.
C16_RepoErrors ==
    (kind = "repoErrors" /\ pc = "done") =>
        /\ code \in RecognizedCodes =>
              tmpl.kind = "string" /\ "{class}" \in Pieces(tmpl.tokens)
        /\ (code = "CLASS_NOT_FOUND" /\ "class" \in DOMAIN subst) =>
              msg = Str(<<"Class '", subst["class"], "' not found">>)
        /\ (code = "CLASS_ALREADY_EXISTS" /\ "class" \in DOMAIN subst) =>
              msg = Str(<<"Class '", subst["class"], "' already exists">>)
        /\ (code \in RecognizedCodes /\ "class" \in DOMAIN subst) =>
              Pieces(msg.tokens) \cap Placeholders = {}
        /\ code \notin RecognizedCodes =>
              /\ tmpl.kind # "string"
              /\ msg.kind \in {"undefined", "failed"}

\* CLASS_ALREADY_EXISTS with class = "Order" gives "Class 'Order' already
\* exists".
C16_Witness ==
    /\ kind = "repoErrors" /\ pc = "done"
    /\ code = "CLASS_ALREADY_EXISTS"
    /\ subst = ("class" :> "Order")
    /\ msg = Str(<<"Class '", "Order", "' already exists">>)

\* An unrecognized code gives undefined.
C16_WitnessUnrecognized ==
    /\ kind = "repoErrors" /\ pc = "done"
    /\ code = "PROP_NOT_FOUND"
    /\ tmpl = Undefined /\ msg = Undefined

(***************************************************************************)
(* Termination of UnionToTuple.                                            *)
(***************************************************************************)
\* C17: the expansion of UnionToTuple<U> ends, with the recursion applied to
\* the empty union, after exactly as many steps as U has members: every step
\* leaves a union with strictly fewer members, and at the end the steps
\* taken and the elements produced number the members of U.
C17_Original ==
    /\ (pc = "expanding" /\ steps > 0) => Cardinality(rest) < Cardinality(U)
    /\ (kind \in {"UnionToTuple", "KeysToTuple"} /\ Typed) =>
          /\ rest = {}
          /\ steps = Cardinality(U)
          /\ Len(tuple) = Cardinality(U)

(***************************************************************************)
(* XOR against the plain union.                                            *)
(***************************************************************************)
\* Both verdicts are in.
BothChecked == verdict # "pending" /\ uverdict # "pending"

\* Every key declared by some shape of the tuple.
AllKeys(tup) == UNION {DOMAIN tup[j] : j \in DOMAIN tup}

\* The literal sets an exclusive key of each of two shapes of the tuple.
MixesTwo(lit, tup) ==
    \E i, j \in DOMAIN tup :
        /\ i # j
        /\ (DOMAIN lit) \cap ExclusiveKeys(tup, i) # {}
        /\ (DOMAIN lit) \cap ExclusiveKeys(tup, j) # {}

\* Every value the literal sets has the type declared for its key.
DeclaredValues(lit) == \A k \in DOMAIN lit : lit[k] \in FieldType(k)

\* The literal gives every required key of shape S.
SuppliesRequired(lit, S) == \A k \in DOMAIN S : k \in DOMAIN lit \/ S[k].optional

\* In alternative i exactly the keys of the other shapes that shape i does
\* not declare are forbidden: optional, and of type never.
ForbiddenAreOthersKeys(tup) ==
    \A i \in DOMAIN tup :
        /\ ForbiddenKeys(tup, i) = AllKeys(tup) \ DOMAIN tup[i]
        /\ \A k \in AllKeys(tup) :
              k \notin DOMAIN tup[i] <=>
                  /\ XORAlternative(tup, i)[k].type = never
                  /\ XORAlternative(tup, i)[k].optional

C18_WitnessBothReject ==
    /\ kind = "xor" /\ T = <<User, Group>>
    /\ val = ("username" :> "string") @@ ("members" :> "string[]")
    /\ uverdict = "rejected" /\ verdict = "rejected"

====
